---- MODULE Spec2Model ----
(***************************************************************************)
(* download_mimic_data_parallel.py: the recursive scan of a directory      *)
(* listing (get_all_file_urls), the per-file download worker               *)
(* (download_file_worker) and the thread-pool engine of main().            *)
(*                                                                         *)
(* A URL is the sequence of its path segments below the host, i.e. the     *)
(* path split on "/": "https://physionet.org/files/mimiciii/1.4/" is       *)
(* <<"files", "mimiciii", "1.4", "">> and a directory URL ends with the    *)
(* empty segment.  An href is split the same way: "sub/" is <<"sub", "">>, *)
(* "../" is <<"..", "">>, "/x/" is <<"", "x", "">>.  A local path is the   *)
(* sequence of its components.  File sizes are counted in bytes.           *)
(***************************************************************************)
EXTENDS Integers, Sequences, FiniteSets, TLC

\* ------------------------------------------------------------------ bounds
\* Worker threads of the pool and display slots (6 in the source, scaled).
MAX_WORKERS == 2
\* Longest target list handed to the engine.
MaxTargets == 3
\* Largest remote file size, in bytes.
MaxSize == 2
\* Bytes per chunk of iter_content (8192 in the source, scaled).
chunk_size == 1

\* ------------------------------------------------------- program constants
\* my_pos before a slot is acquired.
NoPos == -1
BASE_URL == <<"files", "mimiciii", "1.4", "">>
DOWNLOAD_DIR == "mimiciii_data"
\* Scheme and host of a URL, as local path components ("https:", "", host).
Origin == <<"https:", "", "physionet.org">>

VARIABLES
  \* main()
  mpc,                  \* main's position
  all_urls,             \* the list returned by get_all_file_urls
  available_positions,  \* the slot free list
  submitted,            \* number of futures submitted so far
  collected,            \* futures as_completed has yielded
  main_pbar,            \* n of the overall progress bar
  lines,                \* per future, the per-file lines main wrote
  \* download_file_worker, one call per future
  pc, my_pos, server_size, local_exists, local_size, headers, mode,
  body,                 \* bytes of the GET response not yet read
  offset,               \* write position of a file opened 'wb'
  pbar,                 \* n of the per-file progress bar
  ret,                  \* the value the call returns
  \* environment
  file,                 \* local path -> [exists, size]
  file0,                \* the local files as they were when the run began
  remote,               \* URL -> size of the remote file
  run,                  \* "first" or "second" invocation of the program
  first_ret,            \* in the second run, what the calls of the first returned
  listing,              \* directory URL -> the hrefs of its listing page
  \* get_all_file_urls
  stack,                \* the calls in progress, the innermost last
  fetched,              \* the URLs session.get was called with, in order
  scan_errors           \* the URLs an "[ERROR] Could not access" line names

wvars == <<pc, my_pos, server_size, local_exists, local_size, headers, mode,
           body, offset, pbar, ret>>
mvars == <<mpc, all_urls, available_positions, submitted, collected,
           main_pbar, lines>>
evars == <<file, file0, remote, run, first_ret>>
gvars == <<listing, stack, fetched, scan_errors>>
vars == <<mvars, wvars, evars, gvars>>

\* ----------------------------------------------------------------- helpers
Range(s) == {s[k] : k \in DOMAIN s}
Min(a, b) == IF a < b THEN a ELSE b
Max(a, b) == IF a > b THEN a ELSE b

\* list.sort() on a list of integers.
RECURSIVE Insert(_, _)
Insert(s, x) ==
  IF s = <<>> THEN <<x>>
  ELSE IF x <= Head(s) THEN <<x>> \o s
  ELSE <<Head(s)>> \o Insert(Tail(s), x)
RECURSIVE Sort(_)
Sort(s) == IF s = <<>> THEN <<>> ELSE Insert(Sort(Tail(s)), Head(s))

\* list(range(1, MAX_WORKERS + 1))
InitialPositions == [k \in 1..MAX_WORKERS |-> k]

\* ------------------------------------------------------------- local paths
\* url.replace(BASE_URL, ''): the BASE_URL prefix is cut; a URL that does
\* not start with BASE_URL is left whole, scheme and host included.
StartsWithBase(url) ==
  /\ Len(url) >= Len(BASE_URL)
  /\ SubSeq(url, 1, Len(BASE_URL) - 1) = SubSeq(BASE_URL, 1, Len(BASE_URL) - 1)
RelativePath(url) ==
  IF StartsWithBase(url) THEN SubSeq(url, Len(BASE_URL), Len(url))
  ELSE Origin \o url
\* os.path.join(download_dir, relative_path): an absolute second argument
\* (one that starts with "/") replaces the first.
PathJoin(dir, rel) ==
  IF Len(rel) > 1 /\ rel[1] = "" THEN rel ELSE <<dir>> \o rel
LocalPath(url) == PathJoin(DOWNLOAD_DIR, RelativePath(url))

\* The files of the engine's runs.
FileA == SubSeq(BASE_URL, 1, Len(BASE_URL) - 1) \o <<"a.txt">>
FileB == SubSeq(BASE_URL, 1, Len(BASE_URL) - 1) \o <<"sub", "b.txt">>
URLS == {FileA, FileB}
Paths == {LocalPath(u) : u \in URLS}

Tasks == 1..Len(all_urls)
PathOf(i) == LocalPath(all_urls[i])

\* ---------------------------------------------------------------- outcomes
\* What a call returns, by kind; a text is the sequence of its words, and
\* the reason of a failure is the text of the exception.
NoRet == [status |-> "none", reason |-> <<>>]
Success == [status |-> "Success", reason |-> <<>>]
Skipped == [status |-> "Skipped", reason |-> <<"(already", "done)">>]
Failed(e) == [status |-> "Failed", reason |-> e]
\* The message of the returned pair: "Success", "Skipped (already done)",
\* f"Failed: {e}".
Message(r) ==
  IF r.status = "Failed" THEN <<"Failed:">> \o r.reason
  ELSE <<r.status>> \o r.reason

\* "Success" not in message
NotSuccess(message) == "Success" \notin Range(message)

\* ------------------------------------------------------------- environment
\* The texts of the exception a failed HEAD raises; the text of an HTTPError
\* quotes the server's reason phrase and the URL, so it can hold any word.
HeadErrors == {<<"head">>, <<"head", "Success">>}
\* What a read of iter_content delivers: at most chunk_size bytes.
ChunkLen(left) == Min(chunk_size, left)
\* The body of a GET: the whole file, or with a Range header 'bytes=L-' the
\* bytes from L on (the fetch capability honours Range requests).
NoRange == [range |-> FALSE, from |-> 0]
RangeFrom(n) == [range |-> TRUE, from |-> n]
ResponseLength(url, h) ==
  IF h.range THEN Max(remote[url] - h.from, 0) ELSE remote[url]
\* int(head_resp.headers.get('Content-Length', 0)) of a HEAD that succeeded.
ContentLength(url) == remote[url]

\* open(local_path, mode): 'wb' creates or truncates, 'ab' creates or keeps.
Opened(f, m) ==
  IF m = "wb" THEN [exists |-> TRUE, size |-> 0]
  ELSE [exists |-> TRUE, size |-> f.size]
\* f.write(chunk) of n bytes: 'ab' writes at the end of the file, 'wb' at
\* the writer's own position.
Written(f, m, off, n) ==
  IF m = "ab" THEN [exists |-> TRUE, size |-> f.size + n]
  ELSE [exists |-> TRUE, size |-> Max(f.size, off + n)]

\* ------------------------------------------------- download_file_worker
\* Faulty variant: the pool has one thread more than there are slots.
PoolThreads_OneMore == MAX_WORKERS + 1
\* ThreadPoolExecutor(max_workers=MAX_WORKERS): the threads of the pool.
PoolThreads == MAX_WORKERS
\* Faulty variant: a thread of the pool is not free again after its call.
Running_Stuck == {i \in Tasks : pc[i] # "pending"}
\* The futures whose call is running on a pool thread.
Running == {i \in Tasks : pc[i] \notin {"pending", "done"}}

\* positions.pop(0): the value and what is left.
PopValue(positions) == Head(positions)
\* Faulty variant: positions[0] is read and left in the list.
PopRest_Peek(positions) == positions
PopRest(positions) == Tail(positions)
\* positions.append(my_pos); positions.sort()
Release(positions, p) == Sort(Append(positions, p))

\* Faulty variant: a local file larger than the remote one is taken as done.
TransferPlan_KeepLarger(exists, lsize, ssize) ==
  IF exists /\ lsize >= ssize
    THEN [action |-> "Skip", headers |-> NoRange, mode |-> "wb"]
  ELSE IF exists /\ lsize < ssize
    THEN [action |-> "Get", headers |-> RangeFrom(lsize), mode |-> "ab"]
  ELSE [action |-> "Get", headers |-> NoRange, mode |-> "wb"]
\* Faulty variant: a resumed transfer opens the file with the default mode 'wb'.
TransferPlan_ResumeWb(exists, lsize, ssize) ==
  IF exists /\ lsize = ssize
    THEN [action |-> "Skip", headers |-> NoRange, mode |-> "wb"]
  ELSE IF exists /\ lsize < ssize
    THEN [action |-> "Get", headers |-> RangeFrom(lsize), mode |-> "wb"]
  ELSE [action |-> "Get", headers |-> NoRange, mode |-> "wb"]
\* lines 60-71: the plan from os.path.exists, os.path.getsize and the
\* Content-Length of the HEAD.
TransferPlan(exists, lsize, ssize) ==
  IF exists /\ lsize = ssize
    THEN [action |-> "Skip", headers |-> NoRange, mode |-> "wb"]
  ELSE IF exists /\ lsize < ssize
    THEN [action |-> "Get", headers |-> RangeFrom(lsize), mode |-> "ab"]
  ELSE [action |-> "Get", headers |-> NoRange, mode |-> "wb"]

\* Faulty variant: an exception in one call cancels the futures not yet started.
Except_Cancels(i, e) ==
  /\ ret' = [u \in DOMAIN ret |->
               IF u = i \/ pc[u] = "pending" THEN Failed(e) ELSE ret[u]]
  /\ pc' = [u \in DOMAIN pc |->
              IF u = i THEN "finally"
              ELSE IF pc[u] = "pending" THEN "done" ELSE pc[u]]
\* Faulty variant: the slot is given back at the end of the try block, not in a
\* finally clause, so an exception ends the call at once.
Except_NoFinally(i, e) ==
  /\ ret' = [ret EXCEPT ![i] = Failed(e)]
  /\ pc' = [pc EXCEPT ![i] = "done"]
\* Faulty variant: the handler reports the file as skipped.
Except_Skipped(i, e) ==
  /\ ret' = [ret EXCEPT ![i] = Skipped]
  /\ pc' = [pc EXCEPT ![i] = "finally"]
\* except Exception as e: return (url, f"Failed: {e}")
Except(i, e) ==
  /\ ret' = [ret EXCEPT ![i] = Failed(e)]
  /\ pc' = [pc EXCEPT ![i] = "finally"]

\* A pool thread takes the oldest pending future and calls the worker:
\* my_pos = -1, then under the lock my_pos = positions.pop(0).
W_Acquire(i) ==
  /\ mpc = "collect"
  /\ i <= submitted
  /\ pc[i] = "pending"
  /\ \A j \in 1..(i - 1) : pc[j] # "pending"
  /\ Cardinality(Running) < PoolThreads
  /\ IF available_positions = <<>>
       THEN /\ Except(i, <<"pop from empty list">>)
            /\ UNCHANGED <<my_pos, available_positions>>
       ELSE /\ my_pos' = [my_pos EXCEPT ![i] = PopValue(available_positions)]
            /\ available_positions' = PopRest(available_positions)
            /\ pc' = [pc EXCEPT ![i] = "probe"]
            /\ ret' = ret
  /\ UNCHANGED <<server_size, local_exists, local_size, headers, mode, body,
                 offset, pbar>>
  /\ UNCHANGED <<mpc, all_urls, submitted, collected, main_pbar, lines>>
  /\ UNCHANGED evars
  /\ UNCHANGED gvars

\* lines 51-58: os.makedirs, session.head, raise_for_status, Content-Length.
W_Probe(i) ==
  /\ pc[i] = "probe"
  /\ \/ /\ Except(i, <<"makedirs">>)
        /\ UNCHANGED server_size
     \/ /\ \E e \in HeadErrors : Except(i, e)
        /\ UNCHANGED server_size
     \/ /\ server_size' = [server_size EXCEPT ![i] = ContentLength(all_urls[i])]
        /\ pc' = [pc EXCEPT ![i] = "plan"]
        /\ ret' = ret
  /\ UNCHANGED <<my_pos, local_exists, local_size, headers, mode, body,
                 offset, pbar>>
  /\ UNCHANGED <<mvars, evars>>
  /\ UNCHANGED gvars

\* Faulty variant: the file is opened before the sizes are compared.
W_Plan_OpenFirst(i) ==
  /\ pc[i] = "plan"
  /\ LET f == file[PathOf(i)]
         plan == TransferPlan(f.exists, f.size, server_size[i])
     IN /\ local_exists' = [local_exists EXCEPT ![i] = f.exists]
        /\ local_size' = [local_size EXCEPT ![i] = IF f.exists THEN f.size ELSE 0]
        /\ headers' = [headers EXCEPT ![i] = plan.headers]
        /\ mode' = [mode EXCEPT ![i] = plan.mode]
        /\ pbar' = [pbar EXCEPT ![i] = plan.headers.from]
        /\ file' = [file EXCEPT ![PathOf(i)] = Opened(@, plan.mode)]
        /\ IF plan.action = "Skip"
             THEN /\ ret' = [ret EXCEPT ![i] = Skipped]
                  /\ pc' = [pc EXCEPT ![i] = "finally"]
             ELSE /\ ret' = ret
                  /\ pc' = [pc EXCEPT ![i] = "get"]
  /\ UNCHANGED <<my_pos, server_size, body, offset>>
  /\ UNCHANGED <<mvars, file0, remote, run, first_ret>>
  /\ UNCHANGED gvars
\* lines 60-71: headers, mode, initial_progress; the early return of line 67.
W_Plan(i) ==
  /\ pc[i] = "plan"
  /\ LET f == file[PathOf(i)]
         plan == TransferPlan(f.exists, f.size, server_size[i])
     IN /\ local_exists' = [local_exists EXCEPT ![i] = f.exists]
        /\ local_size' = [local_size EXCEPT ![i] = IF f.exists THEN f.size ELSE 0]
        /\ headers' = [headers EXCEPT ![i] = plan.headers]
        /\ mode' = [mode EXCEPT ![i] = plan.mode]
        /\ pbar' = [pbar EXCEPT ![i] = plan.headers.from]
        /\ IF plan.action = "Skip"
             THEN /\ ret' = [ret EXCEPT ![i] = Skipped]
                  /\ pc' = [pc EXCEPT ![i] = "finally"]
             ELSE /\ ret' = ret
                  /\ pc' = [pc EXCEPT ![i] = "get"]
  /\ UNCHANGED <<my_pos, server_size, body, offset>>
  /\ UNCHANGED <<mvars, evars>>
  /\ UNCHANGED gvars

\* lines 73-83: session.get, raise_for_status, open(local_path, mode).
W_Get(i) ==
  /\ pc[i] = "get"
  /\ \/ /\ Except(i, <<"get">>)
        /\ UNCHANGED <<body, offset, file>>
     \/ /\ Except(i, <<"open">>)
        /\ UNCHANGED <<body, offset, file>>
     \/ /\ body' = [body EXCEPT ![i] = ResponseLength(all_urls[i], headers[i])]
        /\ offset' = [offset EXCEPT ![i] = 0]
        /\ file' = [file EXCEPT ![PathOf(i)] = Opened(@, mode[i])]
        /\ pc' = [pc EXCEPT ![i] = "stream"]
        /\ ret' = ret
  /\ UNCHANGED <<my_pos, server_size, local_exists, local_size, headers, mode,
                 pbar>>
  /\ UNCHANGED <<mvars, file0, remote, run, first_ret>>
  /\ UNCHANGED gvars

\* lines 84-86: one turn of the chunk loop, f.write(chunk), pbar.update.
W_Chunk(i) ==
  /\ pc[i] = "stream"
  /\ body[i] > 0
  /\ \/ /\ Except(i, <<"stream">>)
        /\ UNCHANGED <<body, offset, pbar, file>>
     \/ LET n == ChunkLen(body[i])
        IN /\ file' = [file EXCEPT ![PathOf(i)] = Written(@, mode[i], offset[i], n)]
           /\ offset' = [offset EXCEPT ![i] = @ + n]
           /\ pbar' = [pbar EXCEPT ![i] = @ + n]
           /\ body' = [body EXCEPT ![i] = @ - n]
           /\ UNCHANGED <<pc, ret>>
  /\ UNCHANGED <<my_pos, server_size, local_exists, local_size, headers, mode>>
  /\ UNCHANGED <<mvars, file0, remote, run, first_ret>>
  /\ UNCHANGED gvars

\* line 87: the stream is exhausted, return (url, "Success").
W_Return(i) ==
  /\ pc[i] = "stream"
  /\ body[i] = 0
  /\ ret' = [ret EXCEPT ![i] = Success]
  /\ pc' = [pc EXCEPT ![i] = "finally"]
  /\ UNCHANGED <<my_pos, server_size, local_exists, local_size, headers, mode,
                 body, offset, pbar>>
  /\ UNCHANGED <<mvars, evars>>
  /\ UNCHANGED gvars

\* lines 90-94: the finally clause; the call returns, its locals are gone
\* and the future is done with the returned value.
W_Finally(i) ==
  /\ pc[i] = "finally"
  /\ IF my_pos[i] # NoPos
       THEN available_positions' = Release(available_positions, my_pos[i])
       ELSE available_positions' = available_positions
  /\ my_pos' = [my_pos EXCEPT ![i] = NoPos]
  /\ pc' = [pc EXCEPT ![i] = "done"]
  /\ server_size' = [server_size EXCEPT ![i] = 0]
  /\ local_exists' = [local_exists EXCEPT ![i] = FALSE]
  /\ local_size' = [local_size EXCEPT ![i] = 0]
  /\ headers' = [headers EXCEPT ![i] = NoRange]
  /\ mode' = [mode EXCEPT ![i] = "wb"]
  /\ body' = [body EXCEPT ![i] = 0]
  /\ offset' = [offset EXCEPT ![i] = 0]
  /\ pbar' = [pbar EXCEPT ![i] = 0]
  /\ ret' = ret
  /\ UNCHANGED <<mpc, all_urls, submitted, collected, main_pbar, lines>>
  /\ UNCHANGED evars
  /\ UNCHANGED gvars

\* ------------------------------------------------------------------ main()
\* Lines 127-134: the dict comprehension submits one future per element of
\* all_urls, in list order.  The pool starts futures in that order whether or
\* not later ones are submitted yet, so the submissions are taken together.
M_Submit ==
  /\ mpc = "submit"
  /\ submitted' = Len(all_urls)
  /\ mpc' = "collect"
  /\ UNCHANGED <<all_urls, available_positions, collected, main_pbar, lines>>
  /\ UNCHANGED <<wvars, evars>>
  /\ UNCHANGED gvars

\* tqdm.write(f"{os.path.basename(url)}: {message}") unless the message
\* holds "Success": the number of lines written for one future.
LinesFor(message) == IF NotSuccess(message) THEN 1 ELSE 0

\* Faulty variant: main_pbar.update(1) sits inside the 'if "Success" not in message'.
UpdateAfter_InIf(n, message) == n + LinesFor(message)
\* line 144: main_pbar.update(1), after the try statement.
UpdateAfter(n, message) == n + 1

\* Lines 136-144: as_completed yields a finished future; its message is
\* written unless it is a success; main_pbar.update(1).
M_Collect(i) ==
  /\ mpc = "collect"
  /\ pc[i] = "done"
  /\ i \notin collected
  /\ collected' = collected \cup {i}
  /\ lines' = [lines EXCEPT ![i] = @ + LinesFor(Message(ret[i]))]
  /\ main_pbar' = UpdateAfter(main_pbar, Message(ret[i]))
  /\ UNCHANGED <<mpc, all_urls, available_positions, submitted>>
  /\ UNCHANGED <<wvars, evars>>
  /\ UNCHANGED gvars

\* Faulty variant: main stops waiting at the first finished future.
M_Close_First ==
  /\ mpc = "collect"
  /\ collected # {}
  /\ mpc' = "done"
  /\ UNCHANGED <<all_urls, available_positions, submitted, collected,
                 main_pbar, lines>>
  /\ UNCHANGED <<wvars, evars>>
  /\ UNCHANGED gvars
\* Lines 145-148: every future was yielded; main_pbar.close(), "[DONE]".
M_Close ==
  /\ mpc = "collect"
  /\ collected = Tasks
  /\ mpc' = "done"
  /\ UNCHANGED <<all_urls, available_positions, submitted, collected,
                 main_pbar, lines>>
  /\ UNCHANGED <<wvars, evars>>
  /\ UNCHANGED gvars

\* The state of lines 124-128 for a target list: the free list is full, no
\* future is submitted, the overall bar is at 0.
EngineStart(urls) ==
  /\ mpc' = "submit"
  /\ all_urls' = urls
  /\ available_positions' = InitialPositions
  /\ submitted' = 0
  /\ collected' = {}
  /\ main_pbar' = 0
  /\ lines' = [i \in DOMAIN urls |-> 0]
  /\ pc' = [i \in DOMAIN urls |-> "pending"]
  /\ my_pos' = [i \in DOMAIN urls |-> NoPos]
  /\ server_size' = [i \in DOMAIN urls |-> 0]
  /\ local_exists' = [i \in DOMAIN urls |-> FALSE]
  /\ local_size' = [i \in DOMAIN urls |-> 0]
  /\ headers' = [i \in DOMAIN urls |-> NoRange]
  /\ mode' = [i \in DOMAIN urls |-> "wb"]
  /\ body' = [i \in DOMAIN urls |-> 0]
  /\ offset' = [i \in DOMAIN urls |-> 0]
  /\ pbar' = [i \in DOMAIN urls |-> 0]
  /\ ret' = [i \in DOMAIN urls |-> NoRet]

\* The program is run a second time against the same destination and the
\* same, unchanged remote tree: the scan returns the same list.
M_Rerun ==
  /\ mpc = "done"
  /\ run = "first"
  /\ run' = "second"
  /\ first_ret' = ret
  /\ file0' = file
  /\ EngineStart(all_urls)
  /\ UNCHANGED <<file, remote>>
  /\ UNCHANGED gvars

\* ------------------------------------------------------------ the engine
Absent == [exists |-> FALSE, size |-> 0]
Present(n) == [exists |-> TRUE, size |-> n]
LocalStates == {Absent} \cup {Present(n) : n \in 0..(MaxSize + 1)}
\* Lists of 1..MaxTargets file URLs, repeats included; a.txt comes first
\* (the two files are interchangeable).
TargetLists ==
  {l \in UNION {[1..n -> URLS] : n \in 1..MaxTargets} : l[1] = FileA}

\* main() at line 124 with a non-empty list of file URLs; the remote sizes
\* and the local files are arbitrary for the files of the list.  A list with
\* more targets than workers is run on one-chunk files that are absent or
\* complete.
Init ==
  /\ mpc = "submit"
  /\ all_urls \in TargetLists
  /\ available_positions = InitialPositions
  /\ submitted = 0
  /\ collected = {}
  /\ main_pbar = 0
  /\ lines = [i \in Tasks |-> 0]
  /\ pc = [i \in Tasks |-> "pending"]
  /\ my_pos = [i \in Tasks |-> NoPos]
  /\ server_size = [i \in Tasks |-> 0]
  /\ local_exists = [i \in Tasks |-> FALSE]
  /\ local_size = [i \in Tasks |-> 0]
  /\ headers = [i \in Tasks |-> NoRange]
  /\ mode = [i \in Tasks |-> "wb"]
  /\ body = [i \in Tasks |-> 0]
  /\ offset = [i \in Tasks |-> 0]
  /\ pbar = [i \in Tasks |-> 0]
  /\ ret = [i \in Tasks |-> NoRet]
  /\ remote \in [URLS -> 0..MaxSize]
  /\ file \in [Paths -> LocalStates]
  /\ \A u \in URLS \ Range(all_urls) :
       remote[u] = 0 /\ file[LocalPath(u)] = Absent
  /\ Len(all_urls) > MAX_WORKERS =>
       \A u \in Range(all_urls) :
         /\ remote[u] = chunk_size
         /\ file[LocalPath(u)] \in {Absent, Present(chunk_size)}
  /\ file0 = file
  /\ run = "first"
  /\ first_ret = [i \in Tasks |-> NoRet]
  /\ listing = <<>>
  /\ stack = <<>>
  /\ fetched = <<>>
  /\ scan_errors = {}

Next ==
  \/ M_Submit
  \/ \E i \in Tasks : W_Acquire(i)
  \/ \E i \in Tasks : W_Probe(i)
  \/ \E i \in Tasks : W_Plan(i)
  \/ \E i \in Tasks : W_Get(i)
  \/ \E i \in Tasks : W_Chunk(i)
  \/ \E i \in Tasks : W_Return(i)
  \/ \E i \in Tasks : W_Finally(i)
  \/ \E i \in Tasks : M_Collect(i)
  \/ M_Close

\* One run of the engine.
Spec == Init /\ [][Next]_vars
\* One run in which the threads are scheduled again and again and every
\* network and file operation returns or raises.
SpecFair == Spec /\ WF_vars(Next)

\* The engine run, and then run once more on what the first run left; the
\* lists are those that do not outnumber the workers, with sub/b.txt, when
\* it is in the list, a one-chunk file that is absent or complete.
InitTwice ==
  /\ Init
  /\ Len(all_urls) <= MAX_WORKERS
  /\ FileB \in Range(all_urls) =>
       /\ remote[FileB] = chunk_size
       /\ file[LocalPath(FileB)] \in {Absent, Present(chunk_size)}
NextTwice == Next \/ M_Rerun
SpecTwice == InitTwice /\ [][NextTwice]_vars

\* ------------------------------------------------------- get_all_file_urls
\* Most hrefs over all the listing pages of a site.
MaxHrefs == 3
\* The deepest call of get_all_file_urls in which session.get still has
\* stack to run on: deeper, it raises RecursionError (the interpreter's
\* recursion limit, scaled).
MaxDepth == 2

\* hrefs of a listing page: a sort link, the parent link, a file, two
\* sub-directories, and "./", which names the page itself.
SortLink == <<"?C=N;O=D">>
ParentLink == <<"..", "">>
HREFS == {SortLink, ParentLink, <<"a.txt">>, <<"sub", "">>, <<"etc", "">>,
          <<".", "">>}
\* The listing pages of at most n hrefs.
Listings(n) == UNION {[1..k -> HREFS] : k \in 0..n}

\* href.startswith('?')
StartsWithQuery(href) == href = SortLink
\* Faulty variant: the parent link is not recognised.
IsParent_Never(href) == FALSE
\* href == '../'
IsParent(href) == href = ParentLink
\* href.endswith('/')
EndsWithSlash(href) == Len(href) > 1 /\ href[Len(href)] = ""

\* The dot segments of a path resolved as urljoin resolves them: "." is
\* dropped, ".." drops the segment before it, and a path that ends in
\* either ends with "/".
RECURSIVE RemoveDots(_, _)
RemoveDots(out, segs) ==
  IF segs = <<>> THEN out
  ELSE LET seg == Head(segs)
           last == Len(segs) = 1
       IN IF seg = "."
            THEN RemoveDots(IF last THEN Append(out, "") ELSE out, Tail(segs))
          ELSE IF seg = ".."
            THEN LET up == IF out = <<>> THEN out ELSE SubSeq(out, 1, Len(out) - 1)
                 IN RemoveDots(IF last THEN Append(up, "") ELSE up, Tail(segs))
          ELSE RemoveDots(Append(out, seg), Tail(segs))
\* urljoin(url, href): an href that starts with "/" replaces the path, any
\* other replaces the last segment of the page's path.
urljoin(url, href) ==
  IF Len(href) > 1 /\ href[1] = ""
    THEN RemoveDots(<<>>, Tail(href))
  ELSE RemoveDots(<<>>, SubSeq(url, 1, Len(url) - 1) \o href)

RECURSIVE SumLen(_, _)
SumLen(f, dom) ==
  IF dom = {} THEN 0
  ELSE LET u == CHOOSE x \in dom : TRUE
       IN Len(f[u]) + SumLen(f, dom \ {u})
\* The hrefs of the pages seen so far.
HrefsSeen == SumLen(listing, DOMAIN listing)

Top == stack[Len(stack)]
SetTop(frame) == [stack EXCEPT ![Len(stack)] = frame]
Frame(url) == [url |-> url, phase |-> "fetch", hrefs |-> <<>>, links |-> <<>>]

\* lines 24-28: links = [], session.get(url), raise_for_status, the hrefs
\* of the page.  A page is the same each time it is fetched.
G_FetchOk ==
  /\ mpc = "walk" /\ stack # <<>> /\ Top.phase = "fetch"
  /\ Len(stack) <= MaxDepth
  /\ \E hs \in (IF Top.url \in DOMAIN listing THEN {listing[Top.url]}
                ELSE Listings(MaxHrefs - HrefsSeen)) :
       /\ listing' = [u \in DOMAIN listing \cup {Top.url} |->
                        IF u = Top.url THEN hs ELSE listing[u]]
       /\ stack' = SetTop([Top EXCEPT !.phase = "loop", !.hrefs = hs])
  /\ fetched' = Append(fetched, Top.url)
  /\ UNCHANGED <<scan_errors, mvars, wvars, evars>>

\* Faulty variant: the exception of a failed fetch is caught by the outermost call
\* only, which returns no links.
G_FetchFail_Abort ==
  /\ mpc = "walk" /\ stack # <<>> /\ Top.phase = "fetch"
  /\ fetched' = Append(fetched, Top.url)
  /\ scan_errors' = scan_errors \cup {Top.url}
  /\ stack' = <<[stack[1] EXCEPT !.phase = "return", !.links = <<>>]>>
  /\ UNCHANGED <<listing, mvars, wvars, evars>>
\* lines 39-40: the fetch raised; the error is written and the call goes on
\* to return its links.
G_FetchFail ==
  /\ mpc = "walk" /\ stack # <<>> /\ Top.phase = "fetch"
  /\ fetched' = Append(fetched, Top.url)
  /\ scan_errors' = scan_errors \cup {Top.url}
  /\ stack' = SetTop([Top EXCEPT !.phase = "return"])
  /\ UNCHANGED <<listing, mvars, wvars, evars>>

InLoop == mpc = "walk" /\ stack # <<>> /\ Top.phase = "loop" /\ Top.hrefs # <<>>

\* lines 31-32: continue.
G_Skip ==
  /\ InLoop
  /\ StartsWithQuery(Head(Top.hrefs)) \/ IsParent(Head(Top.hrefs))
  /\ stack' = SetTop([Top EXCEPT !.hrefs = Tail(@)])
  /\ UNCHANGED <<listing, fetched, scan_errors, mvars, wvars, evars>>

\* lines 33-36: the recursive call on a directory link.
G_Recurse ==
  /\ InLoop
  /\ ~(StartsWithQuery(Head(Top.hrefs)) \/ IsParent(Head(Top.hrefs)))
  /\ EndsWithSlash(Head(Top.hrefs))
  /\ stack' = Append(SetTop([Top EXCEPT !.hrefs = Tail(@)]),
                     Frame(urljoin(Top.url, Head(Top.hrefs))))
  /\ UNCHANGED <<listing, fetched, scan_errors, mvars, wvars, evars>>

\* lines 33, 37-38: links.append(full_url).
G_Append ==
  /\ InLoop
  /\ ~(StartsWithQuery(Head(Top.hrefs)) \/ IsParent(Head(Top.hrefs)))
  /\ ~EndsWithSlash(Head(Top.hrefs))
  /\ stack' = SetTop([Top EXCEPT !.hrefs = Tail(@),
                                 !.links = Append(@, urljoin(Top.url, Head(Top.hrefs)))])
  /\ UNCHANGED <<listing, fetched, scan_errors, mvars, wvars, evars>>

\* Faulty variant: the links a recursive call returns are not added to the
\* caller's.
G_Return_Drop ==
  /\ mpc = "walk" /\ stack # <<>>
  /\ Top.phase = "return" \/ (Top.phase = "loop" /\ Top.hrefs = <<>>)
  /\ IF Len(stack) = 1
       THEN /\ stack' = <<>>
            /\ all_urls' = Top.links
            /\ mpc' = "scanned"
       ELSE /\ stack' = SubSeq(stack, 1, Len(stack) - 1)
            /\ UNCHANGED <<all_urls, mpc>>
  /\ UNCHANGED <<listing, fetched, scan_errors>>
  /\ UNCHANGED <<available_positions, submitted, collected, main_pbar, lines>>
  /\ UNCHANGED <<wvars, evars>>
\* line 41, and line 36 in the caller: links.extend(...); the outermost
\* call returns all_urls to main (line 117).
G_Return ==
  /\ mpc = "walk" /\ stack # <<>>
  /\ Top.phase = "return" \/ (Top.phase = "loop" /\ Top.hrefs = <<>>)
  /\ IF Len(stack) = 1
       THEN /\ stack' = <<>>
            /\ all_urls' = Top.links
            /\ mpc' = "scanned"
       ELSE /\ stack' = [k \in 1..(Len(stack) - 1) |->
                           IF k = Len(stack) - 1
                             THEN [stack[k] EXCEPT !.links = @ \o Top.links]
                             ELSE stack[k]]
            /\ UNCHANGED <<all_urls, mpc>>
  /\ UNCHANGED <<listing, fetched, scan_errors>>
  /\ UNCHANGED <<available_positions, submitted, collected, main_pbar, lines>>
  /\ UNCHANGED <<wvars, evars>>

\* lines 103-113: the login; on an exception main returns.
M_Login ==
  /\ mpc = "login"
  /\ \E ok \in BOOLEAN : mpc' = IF ok THEN "scan" ELSE "login_failed"
  /\ UNCHANGED <<all_urls, available_positions, submitted, collected,
                 main_pbar, lines>>
  /\ UNCHANGED <<wvars, evars, gvars>>

\* line 117: all_urls = get_all_file_urls(session, BASE_URL).
M_Scan ==
  /\ mpc = "scan"
  /\ mpc' = "walk"
  /\ stack' = <<Frame(BASE_URL)>>
  /\ UNCHANGED <<listing, fetched, scan_errors>>
  /\ UNCHANGED <<all_urls, available_positions, submitted, collected,
                 main_pbar, lines>>
  /\ UNCHANGED <<wvars, evars>>

\* Faulty variant: the warning of line 119 is not followed by a return.
M_Found_NoReturn ==
  /\ mpc = "scanned"
  /\ EngineStart(all_urls)
  /\ UNCHANGED <<evars, gvars>>
\* lines 118-128: no files, main returns; else the free list and the pool.
M_Found ==
  /\ mpc = "scanned"
  /\ IF all_urls = <<>>
       THEN /\ mpc' = "no_files"
            /\ UNCHANGED <<all_urls, available_positions, submitted,
                           collected, main_pbar, lines, wvars>>
       ELSE EngineStart(all_urls)
  /\ UNCHANGED <<evars, gvars>>

\* The directories a scan of the site can come to in calls nested d deep,
\* and the files it can find there.
RECURSIVE SiteDirs(_)
SiteDirs(d) ==
  IF d = 1 THEN {BASE_URL}
  ELSE SiteDirs(d - 1) \cup
       {urljoin(u, h) : u \in SiteDirs(d - 1),
                        h \in {x \in HREFS : EndsWithSlash(x) /\ ~IsParent(x)}}
SiteUrls ==
  {urljoin(u, h) : u \in SiteDirs(MaxDepth),
                   h \in {x \in HREFS : ~EndsWithSlash(x) /\ ~StartsWithQuery(x)}}
SitePaths == {LocalPath(u) : u \in SiteUrls}

\* main() from its start: nothing is known of the site, every file of it is
\* one chunk long, the download directory is empty.
InitScan ==
  /\ mpc = "login"
  /\ all_urls = <<>>
  /\ available_positions = <<>>
  /\ submitted = 0
  /\ collected = {}
  /\ main_pbar = 0
  /\ lines = <<>>
  /\ pc = <<>> /\ my_pos = <<>> /\ server_size = <<>> /\ local_exists = <<>>
  /\ local_size = <<>> /\ headers = <<>> /\ mode = <<>> /\ body = <<>>
  /\ offset = <<>> /\ pbar = <<>> /\ ret = <<>>
  /\ remote = [u \in SiteUrls |-> chunk_size]
  /\ file = [p \in SitePaths |-> Absent]
  /\ file0 = file
  /\ run = "first"
  /\ first_ret = <<>>
  /\ listing = <<>>
  /\ stack = <<>>
  /\ fetched = <<>>
  /\ scan_errors = {}

NextScan ==
  \/ M_Login
  \/ M_Scan
  \/ G_FetchOk
  \/ G_FetchFail
  \/ G_Skip
  \/ G_Recurse
  \/ G_Append
  \/ G_Return
  \/ M_Found

\* The login and the scan of the site, up to the start of the engine.
SpecScan == InitScan /\ [][NextScan]_vars
\* The same, with main's thread always running on.
SpecScanFair == SpecScan /\ WF_vars(NextScan)

\* The whole of main(): the login, the scan, and the engine on what the
\* scan returned.
NextMain ==
  \/ NextScan
  \/ mpc \in {"submit", "collect", "done"} /\ Next
SpecMain == InitScan /\ [][NextMain]_vars

\* ============================================================== the claims
\* The slots held by running calls.
Held == {my_pos[i] : i \in {j \in Tasks : my_pos[j] # NoPos}}
\* No call of the worker is running.
Quiescent == \A i \in Tasks : pc[i] \in {"pending", "done"}

\* C1: in every state of a run no slot is held by two workers, the free list
\* holds no slot twice, no held slot is in the free list, the free list has
\* at most MAX_WORKERS entries, and free and held slots together are
\* exactly 1..MAX_WORKERS.
C1_SlotsExclusive ==
  /\ \A i, j \in Tasks :
       i # j /\ my_pos[i] # NoPos => my_pos[i] # my_pos[j]
  /\ \A a, b \in DOMAIN available_positions :
       a # b => available_positions[a] # available_positions[b]
  /\ Range(available_positions) \cap Held = {}
  /\ Len(available_positions) <= MAX_WORKERS
  /\ Range(available_positions) \cup Held = 1..MAX_WORKERS
\* Every slot is held while a further target waits for a thread.
C1_Witness ==
  /\ Cardinality(Held) = MAX_WORKERS
  /\ available_positions = <<>>
  /\ \E i \in Tasks : pc[i] = "pending"

\* The outcomes main has collected, one per collected future.
Outcomes == [i \in collected |-> ret[i]]

\* C2: main collects an outcome only of a finished call, counts every
\* collection once, and when the run is over it holds exactly one outcome,
\* Success, Skipped or Failed, for every element of the target list.
C2_OneOutcomePerTarget ==
  /\ \A i \in collected : pc[i] = "done"
  /\ main_pbar = Cardinality(collected)
  /\ \A i \in DOMAIN Outcomes :
       Outcomes[i].status \in {"Success", "Skipped", "Failed"}
  /\ mpc = "done" => DOMAIN Outcomes = DOMAIN all_urls
\* A finished run of more targets than workers, one of them listed twice,
\* with all three kinds of outcome.
C2_Witness ==
  /\ mpc = "done"
  /\ Len(all_urls) > MAX_WORKERS
  /\ \E i, j \in Tasks : i # j /\ all_urls[i] = all_urls[j]
  /\ {Outcomes[i].status : i \in DOMAIN Outcomes} = {"Success", "Skipped", "Failed"}

\* The call has made its plan and goes on to the GET.
Planned(i) == pc[i] \in {"get", "stream"}

\* C3: the plan follows the policy table for what the worker saw: no local
\* file -> no Range header and mode 'wb'; local size = remote size -> the
\* call returns Skipped and never reaches the GET; local size < remote size
\* -> Range 'bytes=L-' and mode 'ab'; local size > remote size -> no Range
\* header and mode 'wb'.
C3_PolicyTable ==
  \A i \in Tasks :
    /\ Planned(i) /\ ~local_exists[i] =>
         headers[i] = NoRange /\ mode[i] = "wb"
    /\ Planned(i) /\ local_exists[i] =>
         /\ local_size[i] # server_size[i]
         /\ local_size[i] < server_size[i] =>
              headers[i] = RangeFrom(local_size[i]) /\ mode[i] = "ab"
         /\ local_size[i] > server_size[i] =>
              headers[i] = NoRange /\ mode[i] = "wb"
    /\ pc[i] = "finally" /\ ret[i] = Skipped =>
         local_exists[i] /\ local_size[i] = server_size[i]
    /\ pc[i] = "stream" /\ mode[i] = "wb" /\ offset[i] = 0 /\
       (\A j \in Tasks : j # i => PathOf(j) # PathOf(i)) =>
         file[PathOf(i)] = Present(0)
\* A local file larger than the remote one is about to be overwritten.
C3_Witness ==
  \E i \in Tasks :
    /\ pc[i] = "stream" /\ offset[i] = 0
    /\ local_exists[i] /\ local_size[i] > server_size[i]
    /\ file[PathOf(i)] = Present(0)

\* C4: whenever no call of the worker is running every slot is back in the
\* free list, which is then [1..MAX_WORKERS]; a call whose outcome main
\* can collect holds no slot.
C4_NoSlotLeak ==
  /\ Quiescent => available_positions = InitialPositions
  /\ \A i \in Tasks : pc[i] = "done" => my_pos[i] = NoPos
\* A finished run in which one call failed at each place a call can fail.
C4_Witness ==
  /\ mpc = "done"
  /\ \E i, j \in Tasks :
       /\ ret[i] = Failed(<<"stream">>)
       /\ ret[j].status = "Failed" /\ ret[j].reason \in {<<"makedirs">>, <<"head">>, <<"get">>, <<"open">>}
  /\ available_positions = InitialPositions

\* No other element of the list has the local file of element i.
Sole(i) == \A j \in Tasks : j # i => PathOf(j) # PathOf(i)
\* What a call that meets no error returns for a file that is its own: it
\* depends on the local file at the start of the run and on the remote size.
OwnOutcome(i) ==
  IF file0[PathOf(i)] = Present(remote[all_urls[i]]) THEN "Skipped" ELSE "Success"

\* C5: a failure stays with its target.  The step in which a call fails
\* changes the position and the outcome of no other call, no file of another
\* target and not main's position; the failed call has the one outcome,
\* Failed, for good; the run goes on until every target is collected; and
\* every other target (another URL, another local file) that meets no error
\* of its own ends as its own local file and remote size decide, whatever
\* failed elsewhere.  (Two elements of the list that name one local file
\* have no outcome of their own, with or without a failure: what the later
\* call returns depends on how far the earlier one has come; see C10.)
C5_FailureContained ==
  /\ [](\A i \in Tasks :
          pc[i] = "done" /\ Sole(i) /\ ret[i].status # "Failed" =>
            ret[i].status = OwnOutcome(i))
  /\ [][\A t \in Tasks : ret[t].status = "Failed" => ret'[t] = ret[t]]_vars
  /\ [](mpc \in {"submit", "collect", "done"} /\
        (mpc = "done" => collected = Tasks))
  /\ [][\A t \in Tasks :
          ret[t].status # "Failed" /\ ret'[t].status = "Failed" =>
            /\ mpc' = mpc
            /\ \A u \in Tasks \ {t} :
                 /\ pc'[u] = pc[u] /\ ret'[u] = ret[u]
                 /\ PathOf(u) # PathOf(t) => file'[PathOf(u)] = file[PathOf(u)]]_vars
\* A finished run in which one target failed in mid-stream and a target
\* with another file, started no earlier, succeeded.
C5_Witness ==
  /\ mpc = "done"
  /\ \E t, u \in Tasks :
       /\ t < u /\ PathOf(t) # PathOf(u) /\ Sole(u)
       /\ ret[t] = Failed(<<"stream">>)
       /\ ret[u] = Success

\* C7: a transfer that fails in mid-stream leaves the bytes written so far,
\* N of them, as the local file; a call that finds N bytes of a larger
\* remote file sends Range 'bytes=N-' and appends; and when it returns
\* Success the local file has the remote size.  (The file is the call's
\* own: the claim is about one call at a time on a file.)
C7_Resume ==
  \A i \in Tasks :
    Sole(i) =>
      /\ pc[i] = "finally" /\ ret[i] = Failed(<<"stream">>) =>
           file[PathOf(i)] = Present(pbar[i])
      /\ file0[PathOf(i)].exists /\ file0[PathOf(i)].size < remote[all_urls[i]] =>
           /\ Planned(i) =>
                headers[i] = RangeFrom(file0[PathOf(i)].size) /\ mode[i] = "ab"
           /\ pc[i] = "done" /\ ret[i] = Success =>
                file[PathOf(i)] = Present(remote[all_urls[i]])
\* The first run was interrupted in mid-stream after at least one byte; the
\* second run resumed from that byte and made the file complete.
C7_Witness ==
  /\ run = "second"
  /\ \E i \in Tasks :
       /\ Sole(i)
       /\ first_ret[i] = Failed(<<"stream">>)
       /\ file0[PathOf(i)].exists
       /\ file0[PathOf(i)].size > 0
       /\ file0[PathOf(i)].size < remote[all_urls[i]]
       /\ pc[i] = "done" /\ ret[i] = Success
       /\ file[PathOf(i)] = Present(remote[all_urls[i]])

\* C8: in a second run that follows a first run without a Failed outcome,
\* no call gets as far as a GET and none returns Success: every target that
\* meets no error is Skipped.
C8_SecondRunSkips ==
  (run = "second" /\ \A i \in Tasks : first_ret[i].status \in {"Success", "Skipped"}) =>
    \A i \in Tasks : ~Planned(i) /\ ret[i].status # "Success"

\* C9: the overall progress bar always shows the number of collected
\* outcomes, never more than the number of targets, and all of them when the
\* run is over; it changes only by one, when main collects the outcome,
\* Success, Skipped or Failed, of one more target.
C9_Progress ==
  /\ [](/\ main_pbar = Cardinality(collected)
        /\ main_pbar <= Len(all_urls)
        /\ mpc = "done" => main_pbar = Len(all_urls))
  /\ [][main_pbar' # main_pbar =>
          /\ main_pbar' = main_pbar + 1
          /\ \E i \in Tasks \ collected :
               /\ collected' = collected \cup {i}
               /\ ret[i].status \in {"Success", "Skipped", "Failed"}]_vars
\* The bar is at the total after outcomes of all three kinds.
C9_Witness ==
  /\ mpc = "done"
  /\ main_pbar = MaxTargets
  /\ {ret[i].status : i \in Tasks} = {"Success", "Skipped", "Failed"}

\* The scan is over: get_all_file_urls has returned to main.
Scanned == mpc \in {"scanned", "submit", "no_files"}
\* An href the scan neither skips nor takes for a directory.
IsFileLink(href) ==
  ~StartsWithQuery(href) /\ ~IsParent(href) /\ ~EndsWithSlash(href)
IsDirLink(href) ==
  ~StartsWithQuery(href) /\ ~IsParent(href) /\ EndsWithSlash(href)
\* Directory URLs whose page was asked for and never delivered.
Unreachable == scan_errors \ DOMAIN listing

\* C6: when the scan is over, whatever fetches failed, every file link of
\* every page that was delivered is in the target list, and every directory
\* link of such a page was followed: a failed listing costs the links of
\* that listing only.
C6_ScanFaultIsolation ==
  Scanned =>
    \A d \in DOMAIN listing : \A k \in DOMAIN listing[d] :
      /\ IsFileLink(listing[d][k]) =>
           urljoin(d, listing[d][k]) \in Range(all_urls)
      /\ IsDirLink(listing[d][k]) =>
           urljoin(d, listing[d][k]) \in Range(fetched)
\* The page of a sub-directory could not be fetched; the parent page has a
\* file link before and one after the link to it, and both are targets.
C6_Witness ==
  /\ Scanned
  /\ BASE_URL \in DOMAIN listing
  /\ \E a, k, b \in DOMAIN listing[BASE_URL] :
       /\ a < k /\ k < b
       /\ IsFileLink(listing[BASE_URL][a])
       /\ IsDirLink(listing[BASE_URL][k])
       /\ urljoin(BASE_URL, listing[BASE_URL][k]) \in Unreachable
       /\ IsFileLink(listing[BASE_URL][b])
       /\ urljoin(BASE_URL, listing[BASE_URL][a]) \in Range(all_urls)
       /\ urljoin(BASE_URL, listing[BASE_URL][b]) \in Range(all_urls)

\* C10: the elements of the list handed to the engine have pairwise
\* different local paths.
C10_DistinctPaths ==
  mpc = "submit" =>
    \A i, j \in DOMAIN all_urls :
      i # j => LocalPath(all_urls[i]) # LocalPath(all_urls[j])

\* The HEAD of call i raised.
HeadFailed(i) == ret[i].status = "Failed" /\ ret[i].reason \in HeadErrors

\* C11: a call that leaves the probe without a Content-Length returns
\* Failed; once the HEAD has failed the outcome stays Failed with the text
\* of that failure, the call goes on to its finally clause only, it has no
\* response body and no byte on its progress bar (no GET), none of its
\* steps changes a local file, and when it is over a local file that is its
\* own is as it was when the run began.
C11_ProbeFailure ==
  /\ [](\A i \in Tasks :
          HeadFailed(i) =>
            /\ pc[i] \in {"finally", "done"}
            /\ body[i] = 0 /\ pbar[i] = 0
            /\ pc[i] = "done" /\ Sole(i) => file[PathOf(i)] = file0[PathOf(i)])
  /\ [][\A i \in Tasks :
          /\ pc[i] = "probe" /\ pc'[i] \notin {"probe", "plan"} =>
               ret'[i].status = "Failed" /\ pc'[i] = "finally" /\ file' = file
          /\ HeadFailed(i) =>
               /\ ret'[i] = ret[i]
               /\ pc'[i] # pc[i] => pc'[i] = "done" /\ file' = file]_vars
\* The HEAD failed for a partial local file, which a GET would have resumed;
\* the call is over and the file is as it was.
C11_Witness ==
  \E i \in Tasks :
    /\ HeadFailed(i) /\ pc[i] = "done" /\ Sole(i)
    /\ file0[PathOf(i)].exists
    /\ 0 < file0[PathOf(i)].size
    /\ file0[PathOf(i)].size < remote[all_urls[i]]
    /\ file[PathOf(i)] = file0[PathOf(i)]

\* C20: when main has collected an outcome it has written exactly one
\* per-file line for it if it is Failed, whatever the text of the failure,
\* and none if it is Success.
C20_FailureLines ==
  \A i \in collected :
    /\ ret[i].status = "Failed" => lines[i] = 1
    /\ ret[i].status = "Success" => lines[i] = 0

\* The positions of the hrefs of the delivered pages: <<page, index>>.
Links == {<<d, k>> : d \in DOMAIN listing, k \in 1..MaxHrefs} \cap
         {x \in (DOMAIN listing) \X (1..MaxHrefs) : x[2] <= Len(listing[x[1]])}
HrefAt(x) == listing[x[1]][x[2]]
Target(x) == urljoin(x[1], HrefAt(x))
FileLinks == {x \in Links : IsFileLink(HrefAt(x))}
DirLinks == {x \in Links : IsDirLink(HrefAt(x))}
\* The delivered pages form a tree below BASE_URL: no directory link leads
\* to the root and no two directory links lead to the same directory.
IsTree ==
  \A x \in DirLinks :
    /\ Target(x) # BASE_URL
    /\ \A y \in DirLinks : x # y => Target(x) # Target(y)

\* C13: the scan comes to an end; and when every fetch succeeded and the
\* pages form a tree, every page was fetched exactly once, the root and the
\* target of every directory link and nothing else, and the list returned
\* holds exactly the targets of the file links of those pages, one element
\* for each file link.
C13_WalkOfTree ==
  /\ <>(mpc \in {"login_failed", "no_files", "submit"})
  /\ [](Scanned /\ scan_errors = {} /\ IsTree =>
          /\ \A a, b \in DOMAIN fetched : a # b => fetched[a] # fetched[b]
          /\ Range(fetched) = {BASE_URL} \cup {Target(x) : x \in DirLinks}
          /\ Range(fetched) = DOMAIN listing
          /\ Range(all_urls) = {Target(x) : x \in FileLinks}
          /\ Len(all_urls) = Cardinality(FileLinks))
\* The listing of the root has a.txt and sub/, the listing of sub/ has a
\* file: the scan returned the two files.
C13_Witness ==
  /\ mpc = "submit" /\ scan_errors = {} /\ IsTree
  /\ listing[BASE_URL] = << <<"a.txt">>, <<"sub", "">> >>
  /\ Len(listing[urljoin(BASE_URL, <<"sub", "">>)]) = 1
  /\ Len(all_urls) = 2
  /\ all_urls[1] = FileA
  /\ all_urls[2] = urljoin(urljoin(BASE_URL, <<"sub", "">>), <<"a.txt">>)

\* The hrefs the scan leaves out, and those it takes for directories.
LeftOut(href) == href \in {SortLink, ParentLink}
TakenForDirectory(href) == href[Len(href)] = ""
\* The call for a page is at an href.
AtHref == mpc = "walk" /\ stack # <<>> /\ Top.phase = "loop" /\ Top.hrefs # <<>>

\* C14: the step of the scan over an href h of the page at url u: if h
\* starts with '?' or is '../', no link is added and no page is asked for;
\* else if h ends with '/', a call for urljoin(u, h) begins and no link is
\* added; else urljoin(u, h) is added to the links and no call begins.  A
\* call begins in no other way, and a link is added in no other way.
C14_LinkFilter ==
  /\ [][AtHref /\ stack' # stack =>
          LET h == Head(Top.hrefs)
              u == Top.url
              me == Len(stack)
          IN IF LeftOut(h)
               THEN /\ Len(stack') = me
                    /\ stack'[me].links = Top.links
             ELSE IF TakenForDirectory(h)
               THEN /\ Len(stack') = me + 1
                    /\ stack'[me].links = Top.links
                    /\ stack'[me + 1] = Frame(urljoin(u, h))
             ELSE /\ Len(stack') = me
                  /\ stack'[me].links = Append(Top.links, urljoin(u, h))]_vars
  /\ [][~AtHref /\ stack # <<>> /\ stack' # <<>> => Len(stack') <= Len(stack)]_vars
  /\ [](Scanned =>
          /\ \A k \in DOMAIN all_urls : all_urls[k][Len(all_urls[k])] # ""
          /\ \A x \in Links :
               LeftOut(HrefAt(x)) \/ TakenForDirectory(HrefAt(x)) =>
                 \A k \in DOMAIN all_urls :
                   all_urls[k] = Target(x) =>
                     \E y \in FileLinks : Target(y) = all_urls[k])
\* A page with a sort link, the parent link and a file: the file is the one
\* target, and the parent directory was not asked for.
C14_Witness ==
  /\ mpc = "submit"
  /\ listing[BASE_URL] = <<SortLink, ParentLink, <<"a.txt">> >>
  /\ all_urls = <<FileA>>
  /\ fetched = <<BASE_URL>>

\* C17: no call of the scan is for a directory that a call in progress is
\* for, and no directory in progress has been fetched twice.
C17_NoRevisit ==
  /\ \A k, l \in DOMAIN stack : k # l => stack[k].url # stack[l].url
  /\ \A k \in DOMAIN stack :
       Cardinality({n \in DOMAIN fetched : fetched[n] = stack[k].url}) <= 1

\* The plan of call i is a resumed transfer: a Range request, written in
\* append mode.
Resumes(i) == headers[i].range /\ mode[i] = "ab"

\* C15: a call that goes on to the GET resumes if and only if the local file
\* exists with 0 < local size < remote size, and is otherwise a full
\* transfer (no Range header, mode 'wb'); a call skips if and only if the
\* local file exists with the remote size.
C15_ResumeIff ==
  \A i \in Tasks :
    /\ Planned(i) =>
         /\ Resumes(i) <=>
              (local_exists[i] /\ 0 < local_size[i] /\ local_size[i] < server_size[i])
         /\ ~Resumes(i) => headers[i] = NoRange /\ mode[i] = "wb"
         /\ ~(local_exists[i] /\ local_size[i] = server_size[i])
    /\ pc[i] = "finally" /\ ret[i] = Skipped =>
         local_exists[i] /\ local_size[i] = server_size[i]

\* The calls between acquiring a slot and giving it back.
InFlight == {i \in Tasks : my_pos[i] # NoPos}

\* C16: never more than MAX_WORKERS calls are running or hold a slot; the
\* step in which a call begins finds the free list non-empty and takes a
\* slot of 1..MAX_WORKERS; and no call fails for want of a slot.
C16_PoolNeverEmpty ==
  /\ [](/\ Cardinality(InFlight) <= MAX_WORKERS
        /\ Cardinality(Running) <= MAX_WORKERS
        /\ \A i \in Tasks : ret[i] # Failed(<<"pop from empty list">>))
  /\ [][\A i \in Tasks :
          pc[i] = "pending" /\ pc'[i] # "pending" =>
            /\ available_positions # <<>>
            /\ pc'[i] = "probe"
            /\ my_pos'[i] \in 1..MAX_WORKERS]_vars
\* Every slot is taken again after a call has returned: a target that had
\* to wait for a thread holds a slot while MAX_WORKERS calls are in flight.
C16_Witness ==
  /\ Len(all_urls) > MAX_WORKERS
  /\ Cardinality(InFlight) = MAX_WORKERS
  /\ available_positions = <<>>
  /\ \E i, j \in Tasks :
       /\ i > MAX_WORKERS /\ i \in InFlight
       /\ pc[j] = "done"

\* C19: a call returns Skipped only from its plan, after the HEAD, holding
\* a slot, for a local file of the remote size; it has then no response
\* body, no write position and goes on to nothing but its finally clause,
\* where it gives its slot back; neither the step that returns Skipped nor
\* the finally clause changes a local file; and when the call is over a
\* local file that is its own is as it was when the run began.
C19_SkipTouchesNothing ==
  /\ [](\A i \in Tasks :
          /\ pc[i] \in {"get", "stream"} => ret[i] # Skipped
          /\ ret[i] = Skipped =>
               /\ pc[i] \in {"finally", "done"}
               /\ body[i] = 0 /\ offset[i] = 0
               /\ pc[i] = "finally" =>
                    /\ my_pos[i] # NoPos
                    /\ local_exists[i] /\ local_size[i] = server_size[i]
                    /\ server_size[i] = ContentLength(all_urls[i])
               /\ pc[i] = "done" => my_pos[i] = NoPos
               /\ pc[i] = "done" /\ Sole(i) =>
                    /\ file[PathOf(i)] = file0[PathOf(i)]
                    /\ file[PathOf(i)] = Present(remote[all_urls[i]]))
  /\ [][\A i \in Tasks :
          /\ ret[i] # Skipped /\ ret'[i] = Skipped =>
               /\ pc[i] = "plan" /\ pc'[i] = "finally"
               /\ file' = file
               /\ available_positions' = available_positions
          /\ ret[i] = Skipped =>
               /\ ret'[i] = ret[i]
               /\ pc'[i] # pc[i] =>
                    /\ pc[i] = "finally" /\ pc'[i] = "done"
                    /\ file' = file
                    /\ available_positions' =
                         Release(available_positions, my_pos[i])]_vars
\* A complete local file was skipped while another call was writing a file
\* of its own; the skipped file is as it was and every slot is free again.
C19_Witness ==
  /\ mpc = "done"
  /\ available_positions = InitialPositions
  /\ \E i, j \in Tasks :
       /\ ret[i] = Skipped /\ Sole(i)
       /\ remote[all_urls[i]] > 0
       /\ file[PathOf(i)] = Present(remote[all_urls[i]])
       /\ ret[j] = Success /\ file0[PathOf(j)] # file[PathOf(j)]

\* Every target has a collected outcome, no call is running, every slot is
\* free.
AllCollected ==
  /\ collected = Tasks
  /\ \A i \in Tasks : pc[i] = "done" /\ ret[i].status \in {"Success", "Skipped", "Failed"}
  /\ available_positions = InitialPositions

\* C18: every run of a non-empty list comes to its end, main at "[DONE]",
\* and stays there; main is there only when every target has a collected
\* outcome and every slot is free.
C18_RunCompletes ==
  /\ <>[](mpc = "done")
  /\ [](mpc = "done" => AllCollected)
  /\ [](Len(all_urls) > 0)
\* A run of more targets than workers is over, one failure among them.
C18_Witness ==
  /\ mpc = "done" /\ AllCollected
  /\ Len(all_urls) = MaxTargets /\ MaxTargets > MAX_WORKERS
  /\ \E i \in Tasks : ret[i].status = "Failed"

\* A call of the worker has begun.
Started == \E i \in DOMAIN pc : pc[i] # "pending"
\* main has returned early, at line 113 or at line 120.
Aborted == mpc \in {"login_failed", "no_files"}

\* C12: after a failed login no listing has been asked for and no future
\* exists; after a scan that found no file no future exists; main does
\* nothing more after either; the pool exists only for a non-empty list;
\* while the login is going on no listing has been asked for; and once a
\* call of the worker has begun the scan is over: no call of it is in
\* progress, and neither the list nor the pages asked for change again.
C12_FatalBeforeDownloads ==
  /\ [](mpc = "login_failed" => fetched = <<>> /\ stack = <<>> /\ pc = <<>>)
  /\ [](mpc = "no_files" => all_urls = <<>> /\ stack = <<>> /\ pc = <<>>)
  /\ [][~Aborted]_vars
  /\ [](mpc \in {"submit", "collect", "done"} =>
          all_urls # <<>> /\ Len(pc) = Len(all_urls))
  /\ [](mpc = "login" => fetched = <<>> /\ stack = <<>> /\ ~Started)
  /\ [](Started => stack = <<>> /\ mpc \in {"collect", "done"})
  /\ [][Started => fetched' = fetched /\ all_urls' = all_urls]_vars
\* The scan went through the root and a sub-directory, found no file, and
\* main returned without a pool.
C12_Witness ==
  /\ mpc = "no_files"
  /\ Len(fetched) > 1
  /\ scan_errors = {}
  /\ pc = <<>> /\ available_positions = <<>>

====
